---- MODULE Spec2Model ----
(***************************************************************************)
(* The economy state machine of chiya: the message listener that accrues   *)
(* buffer and assigns the user class, and the purchase commands (buy role, *)
(* buy color, upgrade hue, upgrade saturation, upgrade brightness) that    *)
(* load a user's stats, check the conditions, call the platform and store  *)
(* the stats back.                                                         *)
(*                                                                         *)
(* One user is modelled: every row of the achievements table is read and   *)
(* written by user id only, so users do not interact.  The handlers are    *)
(* asyncio coroutines: a handler runs without interruption up to an await  *)
(* of a platform call (create_role, add_roles, edit_role_positions,        *)
(* role.edit, ctx.send); the dataset calls (find_one, insert, update) are  *)
(* synchronous and the awaited helper coroutines (create_user,             *)
(* calculate_buffer, get_buffer_string, ...) never suspend.  One action of *)
(* the model is one such uninterrupted segment.  ctx.defer() is awaited    *)
(* before a handler reads anything, and the ctx.send of an error embed     *)
(* with nothing but db.close() after it: the first is part of the          *)
(* invocation and the second of the segment that ends the handler.         *)
(*                                                                         *)
(* buffer is a float in the source.  Every amount the code adds or         *)
(* subtracts is a multiple of 0.001, so the model counts buffer in         *)
(* thousandths (Scale) and its arithmetic is exact; binary rounding of the *)
(* floats is not modelled.  json.dumps / json.loads of the stats           *)
(* dictionary keeps every field (bool, int, float, str, list), so a row    *)
(* holds the stats record itself.                                          *)
(***************************************************************************)
EXTENDS Integers, Sequences, FiniteSets, TLC

\* ------------------------------------------------------------------ bounds

\* Message events delivered to on_message in one behaviour.
MaxMessages == 1

\* Purchase commands invoked in one behaviour.
MaxCommands == 2

\* Commands that can be suspended at an await at the same time.
MaxTasks == 2

Tasks == 1..MaxTasks

\* Word counts and booster flags of the messages delivered between the
\* commands, names of the packs asked for and amounts of the cap upgrades
\* asked for.
Lengths == {10}

Boosters == {FALSE}

\* Word counts of the messages of MessageSpec: the two ends of every bracket
\* of calculate_buffer, and the last count under the cap of 40 and the first
\* over it, for a booster (27, 28) and for the others (33, 34).
MessageLengths == {0, 2, 3, 4, 5, 7, 8, 10, 11, 15, 16, 27, 28, 33, 34}

Packs == {"red", "yellow", "purple"}

\* What generate_hsv rolls for saturation and for value in Spec.
Rolls == {0}

Amounts == {-5, 5, 10}

\* Custom roles of other members in the guild when PlacementSpec starts.
MaxOtherRoles == 5

\* ------------------------------------------------------- program constants

\* Thousandths of a buffer unit per unit: the multipliers of calculate_buffer
\* have two decimals and the booster bonus one more.
Scale == 1000

MB(x) == x * Scale

user_classes ==
    <<"Member", "User", "Power User", "Elite", "Torrent Master", "Power TM",
      "Elite TM", "Legend">>

colors == {"red", "yellow", "green", "cyan", "blue", "magenta"}

\* A default row that counts the message it is made for.
create_user_first_message_counted ==
    [ user_class         |-> "Member",
      message_count      |-> 1,
      buffer             |-> 0,
      freeleech_token    |-> 0,
      has_custom_role    |-> FALSE,
      custom_role_id     |-> 0,
      hue_upgrade        |-> <<>>,
      saturation_upgrade |-> 0,
      value_upgrade      |-> 0,
      achievements       |-> <<>> ]

create_user ==
    [ user_class         |-> "Member",
      message_count      |-> 0,
      buffer             |-> 0,
      freeleech_token    |-> 0,
      has_custom_role    |-> FALSE,
      custom_role_id     |-> 0,
      hue_upgrade        |-> <<>>,
      saturation_upgrade |-> 0,
      value_upgrade      |-> 0,
      achievements       |-> <<>> ]

\* --------------------------------------------------------------- state

VARIABLES
    achievements,   \* the table: <<>> or <<stats>>, the row of the user
    guildRoles,     \* ids of the custom roles that exist in the guild
    created,        \* number of roles create_role has made so far
    modRoles,       \* number of roles of the guild above the custom roles
    pc,             \* pc[t]: the await task t is suspended at, or "idle"
    cmd,            \* cmd[t]: the command task t runs and its argument
    user,           \* user[t]: the stats of the row task t loaded
    stats,          \* stats[t]: the dictionary task t works on
    effects,        \* effects[t]: platform calls of task t that returned
    custom_role,    \* custom_role[t]: id of the role create_role returned
    hsv,            \* per handler, the saturation and value generate_hsv rolled
    result,         \* what the command that ended last ended with
    positions,      \* the positions last passed to edit_role_positions
    message,        \* the message event delivered last
    messages,       \* message events delivered so far
    commands        \* commands invoked so far

vars ==
    <<achievements, guildRoles, created, modRoles, pc, cmd, user, stats,
      effects, custom_role, hsv, result, positions, message, messages, commands>>

\* ------------------------------------------------- Achievements, helpers

\* The brackets with their upper ends taken in.
multiplier_brackets_closed(length) ==
    IF length \in 0..3 THEN 330
    ELSE IF length \in 4..5 THEN 670
    ELSE IF length \in 6..8 THEN 900
    ELSE IF length \in 9..11 THEN 1000
    ELSE IF length \in 12..16 THEN 1100
    ELSE 1200

\* calculate_buffer, lines 70-86: the multiplier of a message of `length`
\* words, in thousandths (0.33, 0.67, 0.9, 1, 1.1, 1.2).
multiplier(length) ==
    IF length \in 0..2 THEN 330
    ELSE IF length \in 3..4 THEN 670
    ELSE IF length \in 5..7 THEN 900
    ELSE IF length \in 8..10 THEN 1000
    ELSE IF length \in 11..15 THEN 1100
    ELSE 1200

\* The buffer one message adds, the cap of 40 left out.
gained_buffer_uncapped(length, is_booster) ==
    LET buffer == length * multiplier(length)
    IN  IF is_booster THEN buffer + (buffer * 2) \div 10 ELSE buffer

\* calculate_buffer, lines 89-101: the buffer one message adds, in
\* thousandths: length * multiplier, a fifth more for a server booster,
\* at most 40.
gained_buffer(length, is_booster) ==
    LET buffer  == length * multiplier(length)
        boosted == IF is_booster THEN buffer + (buffer * 2) \div 10 ELSE buffer
    IN  IF boosted <= MB(40) THEN boosted ELSE MB(40)

\* The chain without its message floors: the class follows the buffer alone.
assigned_user_class_by_buffer_alone(s) ==
    IF s.buffer < MB(10240) THEN "Member"
    ELSE IF s.buffer < MB(25600) THEN "User"
    ELSE IF s.buffer < MB(51200) THEN "Power User"
    ELSE IF s.buffer < MB(102400) THEN "Elite"
    ELSE IF s.buffer < MB(256000) THEN "Torrent Master"
    ELSE IF s.buffer < MB(512000) THEN "Power TM"
    ELSE IF s.buffer < MB(1048576) THEN "Elite TM"
    ELSE "Legend"

\* The chain with the classes of two neighbouring bands taken for each other.
assigned_user_class_bands_swapped(s) ==
    IF s.buffer < MB(10240) THEN "Member"
    ELSE IF s.buffer < MB(25600) /\ s.message_count >= 1000 THEN "User"
    ELSE IF s.buffer < MB(51200) /\ s.message_count >= 2500 THEN "Elite"
    ELSE IF s.buffer < MB(102400) /\ s.message_count >= 5000 THEN "Power User"
    ELSE IF s.buffer < MB(256000) /\ s.message_count >= 10000
        THEN "Torrent Master"
    ELSE IF s.buffer < MB(512000) /\ s.message_count >= 22500 THEN "Power TM"
    ELSE IF s.buffer < MB(1048576) /\ s.message_count >= 45000 THEN "Elite TM"
    ELSE IF s.buffer >= MB(1048576) /\ s.message_count >= 80000 THEN "Legend"
    ELSE s.user_class

\* The chain that promotes to Member, User and Power User and never demotes
\* to them: a class above the band of the buffer is kept.
assigned_user_class_promotes_only(s) ==
    IF s.buffer < MB(10240) THEN s.user_class
    ELSE IF s.buffer < MB(25600) /\ s.message_count >= 1000
        THEN (IF s.user_class = "Member" THEN "User" ELSE s.user_class)
    ELSE IF s.buffer < MB(51200) /\ s.message_count >= 2500
        THEN (IF s.user_class \in {"Member", "User"} THEN "Power User"
              ELSE s.user_class)
    ELSE IF s.buffer < MB(102400) /\ s.message_count >= 5000 THEN "Elite"
    ELSE IF s.buffer < MB(256000) /\ s.message_count >= 10000
        THEN "Torrent Master"
    ELSE IF s.buffer < MB(512000) /\ s.message_count >= 22500 THEN "Power TM"
    ELSE IF s.buffer < MB(1048576) /\ s.message_count >= 45000 THEN "Elite TM"
    ELSE IF s.buffer >= MB(1048576) /\ s.message_count >= 80000 THEN "Legend"
    ELSE s.user_class

\* calculate_buffer, lines 103-126: the if / elif chain over the updated
\* stats; when no branch is taken user_class keeps its value.
assigned_user_class(s) ==
    IF s.buffer < MB(10240) THEN "Member"
    ELSE IF s.buffer < MB(25600) /\ s.message_count >= 1000 THEN "User"
    ELSE IF s.buffer < MB(51200) /\ s.message_count >= 2500 THEN "Power User"
    ELSE IF s.buffer < MB(102400) /\ s.message_count >= 5000 THEN "Elite"
    ELSE IF s.buffer < MB(256000) /\ s.message_count >= 10000
        THEN "Torrent Master"
    ELSE IF s.buffer < MB(512000) /\ s.message_count >= 22500 THEN "Power TM"
    ELSE IF s.buffer < MB(1048576) /\ s.message_count >= 45000 THEN "Elite TM"
    ELSE IF s.buffer >= MB(1048576) /\ s.message_count >= 80000 THEN "Legend"
    ELSE s.user_class

\* The buffer bounds the chain compares with, by the place of the class
\* they open in user_classes.
assigned_floor == <<0, 10240, 25600, 51200, 102400, 256000, 512000, 1048576>>

calculate_buffer(s, length, is_booster) ==
    LET added == [s EXCEPT !.buffer = @ + gained_buffer(length, is_booster)]
    IN  [added EXCEPT !.user_class = assigned_user_class(added)]

\* stats[key] of a dictionary without the key raises KeyError: a handler
\* that reads `keys` raises on stats that miss one of them.
KeyError(s, keys) == keys \ DOMAIN s # {}

\* leveling_cog.verify_integrity(stats), which BuyRoleCog.buy_role awaits
\* right after json.loads: the stats with every field of create_user that
\* they miss filled in with its default.
verify_integrity(s) ==
    [key \in DOMAIN s \cup DOMAIN create_user |->
        IF key \in DOMAIN s THEN s[key] ELSE create_user[key]]

\* find_one(user_id=...): the row of the user, if there is one.
find_one(table) == table # <<>>

\* The table after `if not user: insert(create_user())`, and the stats that
\* json.loads(user["stats"]) then yields.
load_or_create(table) == IF find_one(table) THEN table ELSE <<create_user>>

loaded_stats(table) == load_or_create(table)[1]

\* An update that keeps the message_count that is stored when it is the
\* larger one.
update_keeping_larger_count(table, s) ==
    IF find_one(table)
    THEN <<[s EXCEPT !.message_count =
                IF table[1].message_count > @ THEN table[1].message_count ELSE @]>>
    ELSE table

\* achievements.update(dict(id=user["id"], stats=stats_json), ["id"]): the
\* row with the id of the loaded row gets the stats; rows are never deleted,
\* so it is there.
update(table, s) == IF find_one(table) THEN <<s>> ELSE table

\* ---------------------------------------------- purchases: the conditions

\* BuyRoleCog.buy_role (cogs/commands/economy/buy_role.py).
BuyRoleCog_cost == 10240

BuyRoleCog_allowed_classes ==
    {"Power User", "Elite", "Torrent Master", "Power TM", "Elite TM", "Legend"}

BuyRoleCog_buffer_check(s) == s.buffer >= MB(BuyRoleCog_cost)

BuyRoleCog_user_class_check(s) == s.user_class \in BuyRoleCog_allowed_classes

\* The condition without custom_role_check.
BuyRoleCog_rejects_role_unchecked(s) ==
    \/ ~BuyRoleCog_buffer_check(s)
    \/ ~BuyRoleCog_user_class_check(s)

\* `if not buffer_check or not user_class_check or custom_role_check`, and the
\* fields the error embed then gets.
BuyRoleCog_rejects(s) ==
    \/ ~BuyRoleCog_buffer_check(s)
    \/ ~BuyRoleCog_user_class_check(s)
    \/ s.has_custom_role

BuyRoleCog_fields(s) ==
    {c \in {"buffer"} : ~BuyRoleCog_buffer_check(s)}
        \cup {c \in {"user_class"} : ~BuyRoleCog_user_class_check(s)}
        \cup {c \in {"owns_role"} : s.has_custom_role}

\* Achievements.buy_role (cogs/commands/economy.py), registered for the same
\* command.
Achievements_cost == 5120

Achievements_allowed_classes ==
    {"Elite", "Torrent Master", "Power TM", "Elite TM", "Legend"}

Achievements_buffer_check(s) == s.buffer >= MB(Achievements_cost)

Achievements_user_class_check(s) ==
    s.user_class \in Achievements_allowed_classes

Achievements_rejects(s) ==
    \/ ~Achievements_buffer_check(s)
    \/ ~Achievements_user_class_check(s)
    \/ s.has_custom_role

Achievements_fields(s) ==
    {c \in {"buffer"} : ~Achievements_buffer_check(s)}
        \cup {c \in {"user_class"} : ~Achievements_user_class_check(s)}
        \cup {c \in {"owns_role"} : s.has_custom_role}

\* Achievements.buy_color.
buy_color_cost == 128

\* The check that there is buffer, not that there is enough.
buy_color_buffer_check_any_buffer(s) == s.buffer >= 0

buy_color_buffer_check(s) == s.buffer >= MB(buy_color_cost)

color_check(s) == Len(s.hue_upgrade) # 0

buy_color_rejects(s) ==
    \/ ~buy_color_buffer_check(s)
    \/ ~color_check(s)
    \/ ~s.has_custom_role

buy_color_fields(s) ==
    {c \in {"buffer"} : ~buy_color_buffer_check(s)}
        \cup {c \in {"no_pack"} : ~color_check(s)}
        \cup {c \in {"no_role"} : ~s.has_custom_role}

\* Achievements.upgrade_hue.
upgrade_hue_cost == 2048

upgrade_hue_color_check(pack) == \E color \in colors : pack = color

\* The check over the wrong list of the stats.
owned_check_wrong_list(s, pack) ==
    \E i \in 1..Len(s.achievements) : pack = s.achievements[i]

owned_check(s, pack) ==
    \E i \in 1..Len(s.hue_upgrade) : pack = s.hue_upgrade[i]

upgrade_hue_buffer_check(s) == s.buffer >= MB(upgrade_hue_cost)

\* The condition without owned_check.
upgrade_hue_rejects_owned_unchecked(s, pack) ==
    \/ ~upgrade_hue_color_check(pack)
    \/ ~upgrade_hue_buffer_check(s)
    \/ ~s.has_custom_role

\* The condition without custom_role_check.
upgrade_hue_rejects_role_unchecked(s, pack) ==
    \/ ~upgrade_hue_color_check(pack)
    \/ owned_check(s, pack)
    \/ ~upgrade_hue_buffer_check(s)

upgrade_hue_rejects(s, pack) ==
    \/ ~upgrade_hue_color_check(pack)
    \/ owned_check(s, pack)
    \/ ~upgrade_hue_buffer_check(s)
    \/ ~s.has_custom_role

upgrade_hue_fields(s, pack) ==
    {c \in {"unknown_pack"} : ~upgrade_hue_color_check(pack)}
        \cup {c \in {"owned"} : owned_check(s, pack)}
        \cup {c \in {"buffer"} : ~upgrade_hue_buffer_check(s)}
        \cup {c \in {"no_role"} : ~s.has_custom_role}

\* Achievements.upgrade_saturation and Achievements.upgrade_value: the same
\* code over saturation_upgrade and value_upgrade; `level` is the field's
\* value in the loaded stats.
upgrade_cost == 3

inflated_cost(level, amount) == level * upgrade_cost + amount * upgrade_cost

upgrade_buffer_check(s, level, amount) ==
    s.buffer >= MB(inflated_cost(level, amount))

\* The check of the amount alone, the level left out.
availability_check_amount_alone(level, amount) == amount <= 100

availability_check(level, amount) == amount + level <= 100

upgrade_rejects(s, level, amount) ==
    \/ ~upgrade_buffer_check(s, level, amount)
    \/ ~color_check(s)
    \/ ~availability_check(level, amount)
    \/ ~s.has_custom_role

upgrade_fields(s, level, amount) ==
    {c \in {"buffer"} : ~upgrade_buffer_check(s, level, amount)}
        \cup {c \in {"no_pack"} : ~color_check(s)}
        \cup {c \in {"no_role"} : ~s.has_custom_role}
        \cup {c \in {"availability"} : ~availability_check(level, amount)}

\* The number the availability field shows: "You can only purchase this
\* upgrade {100 - level} more times!".
\* The count one short.
more_times_one_short(level) == 99 - level

more_times(level) == 100 - level

\* round(x, 2) of the quotient n / d, in hundredths: the nearest hundredth,
\* the even one of two that are as near.
round(n, d) ==
    LET q == n \div d
        r == n % d
    IN  IF 2 * r > d THEN q + 1
        ELSE IF 2 * r < d THEN q
        ELSE IF q % 2 = 0 THEN q ELSE q + 1

\* The units chosen above their bounds only.
get_buffer_string_above_bounds(buffer) ==
    IF buffer > MB(1024 * 1024)
        THEN [value |-> round(buffer, 10 * 1024 * 1024), unit |-> "TB"]
    ELSE IF buffer > MB(1024)
        THEN [value |-> round(buffer, 10 * 1024), unit |-> "GB"]
    ELSE [value |-> round(buffer, 10), unit |-> "MB"]

\* Achievements.get_buffer_string, of a buffer in thousandths: the number
\* shown, in hundredths, and the unit after it.  The "New buffer:" field of
\* the success embed of every purchase shows it for the buffer the purchase
\* leaves (BuyRoleCog.buy_role calls the get_buffer_string of the leveling
\* cog, taken to be this one).
get_buffer_string(buffer) ==
    IF buffer >= MB(1024 * 1024)
        THEN [value |-> round(buffer, 10 * 1024 * 1024), unit |-> "TB"]
    ELSE IF buffer >= MB(1024)
        THEN [value |-> round(buffer, 10 * 1024), unit |-> "GB"]
    ELSE [value |-> round(buffer, 10), unit |-> "MB"]

\* generate_hsv, lines 228-231: random.choice(hue) raises on an empty pool and
\* random.randint(0, cap + 1) on an empty range.
hue_pool_empty(s) ==
    \A i \in 1..Len(s.hue_upgrade) : s.hue_upgrade[i] \notin colors

generate_hsv_raises(s) ==
    \/ hue_pool_empty(s)
    \/ s.saturation_upgrade + 1 < 0
    \/ s.value_upgrade + 1 < 0

\* generate_hsv, lines 230-231: the saturation and the value it returns, in
\* hundredths (before the division by 100); randint takes both its ends in.
generate_hsv_returns(s, saturation, value) ==
    /\ ~hue_pool_empty(s)
    /\ saturation \in 0..(s.saturation_upgrade + 1)
    /\ value \in 0..(s.value_upgrade + 1)

\* buy_color, line 446: discord.utils.get over the roles of the guild, None
\* when no role has the id.
None == 0

get_role_of_any_id(s) == s.custom_role_id

get_role(s) ==
    IF s.custom_role_id \in guildRoles THEN s.custom_role_id ELSE None

\* buy_role of either cog, the placement of the new role.  The guild holds
\* @everyone, the custom roles and modRoles roles above them;
\* ctx.guild.roles lists them from the bottom, index 0 being @everyone and
\* index 1 the role just created.  The code takes the roles above to be the
\* mod_role_count mod roles (the separator after their category included).
mod_role_count == 14

role_count == 1 + modRoles + Cardinality(guildRoles)

\* The positions with the mod roles counted one short.
role_positions_short_mod_block(count) ==
    LET position(index) ==
            IF index < count - (mod_role_count - 1) THEN index - 2 ELSE index - 1
        custom == count - (mod_role_count - 1) - 2
        kept   == {index \in 2..(count - 1) :
                     /\ position(index) # custom
                     /\ \A later \in (index + 1)..(count - 1) :
                          position(later) # position(index)}
    IN  [role_count |-> count, custom_role |-> custom,
         roles |-> [index \in kept |-> position(index)]]

\* The dictionary passed to edit_role_positions for a guild of `count` roles:
\* the position of the new role and, by its index in ctx.guild.roles, the
\* position of every other role.  `positions` is first keyed by position, so
\* of two roles given one position the one written last is kept, the new role
\* being written last of all; then it is inverted.
role_positions(count) ==
    LET position(index) ==
            IF index < count - mod_role_count THEN index - 2 ELSE index - 1
        custom == count - mod_role_count - 2
        kept   == {index \in 2..(count - 1) :
                     /\ position(index) # custom
                     /\ \A later \in (index + 1)..(count - 1) :
                          position(later) # position(index)}
    IN  [role_count |-> count, custom_role |-> custom,
         roles |-> [index \in kept |-> position(index)]]

\* ----------------------------------------------------------- initial states

\* The table is empty when the bot is first started.  The other initial
\* states are rows the handlers below produce from the empty table in more
\* steps than a check can take one by one:
\*   memberRow     639 messages of 40 buffer, one of 25 words (30 buffer) and
\*                 359 without words, none of them as the 1000th message;
\*   powerUserRow  640 messages of 40 buffer among 2500;
\*   eliteRow      1280 messages of 40 buffer among 5000;
\*   ownerRow      powerUserRow after five more messages (52 buffer),
\*                 BuyRoleCog.buy_role (10240), upgrade_hue red (2048),
\*                 upgrade_saturation 95 and 88 buy_color (128 each).
memberRow ==
    [create_user EXCEPT !.message_count = 999, !.buffer = MB(25590)]

powerUserRow ==
    [create_user EXCEPT !.user_class = "Power User", !.message_count = 2500,
                        !.buffer = MB(25600)]

eliteRow ==
    [create_user EXCEPT !.user_class = "Elite", !.message_count = 5000,
                        !.buffer = MB(51200)]

ownerRow ==
    [powerUserRow EXCEPT !.message_count = 2505, !.buffer = MB(2100),
                         !.has_custom_role = TRUE, !.custom_role_id = 1,
                         !.hue_upgrade = <<"red">>,
                         !.saturation_upgrade = 95]

NoCommand == [kind |-> "none", cog |-> "", pack |-> "", amount |-> 0]

NoString == [value |-> 0, unit |-> ""]

NoResult ==
    [ kind |-> "none", cog |-> "", pack |-> "", amount |-> 0,
      outcome |-> "none", fields |-> {}, more_times |-> 0, effects |-> {},
      buffer_string |-> NoString ]

NoColor == [saturation |-> 0, value |-> 0]

NoPositions == [role_count |-> 0, custom_role |-> 0, roles |-> <<>>]

NoMessage ==
    [bot |-> FALSE, channel_enabled |-> FALSE, length |-> 0, is_booster |-> FALSE]

Init ==
    /\ \/ achievements = <<>> /\ guildRoles = {} /\ created = 0
       \/ achievements \in {<<memberRow>>, <<powerUserRow>>, <<eliteRow>>}
            /\ guildRoles = {} /\ created = 0
       \/ achievements = <<ownerRow>> /\ guildRoles = {1} /\ created = 1
    /\ modRoles = mod_role_count
    /\ pc = [t \in Tasks |-> "idle"]
    /\ cmd = [t \in Tasks |-> NoCommand]
    /\ user = [t \in Tasks |-> create_user]
    /\ stats = [t \in Tasks |-> create_user]
    /\ effects = [t \in Tasks |-> {}]
    /\ custom_role = [t \in Tasks |-> 0]
    /\ hsv = [t \in Tasks |-> NoColor]
    /\ result = NoResult
    /\ positions = NoPositions
    /\ message = NoMessage
    /\ messages = 0
    /\ commands = 0

\* ------------------------------------------------------------- on_message

\* The listener without the return for a bot: every sender is counted.
on_message_bots_counted(bot, channel_enabled, length, is_booster) ==
    /\ messages < MaxMessages
    /\ messages' = messages + 1
    /\ message' = [bot |-> bot, channel_enabled |-> channel_enabled,
                   length |-> length, is_booster |-> is_booster]
    /\ LET table   == load_or_create(achievements)
           counted == [table[1] EXCEPT !.message_count = @ + 1]
       IN  \/ /\ channel_enabled
              /\ achievements' =
                   update(table, calculate_buffer(counted, length, is_booster))
           \/ /\ ~channel_enabled
              /\ achievements' = table
    /\ UNCHANGED <<guildRoles, created, modRoles, pc, cmd, user, stats, effects,
                   custom_role, hsv, result, positions, commands>>

\* Achievements.on_message: one message event.  The handler has no await of
\* the platform, so it is one step.
on_message(bot, channel_enabled, length, is_booster) ==
    /\ messages < MaxMessages
    /\ messages' = messages + 1
    /\ message' = [bot |-> bot, channel_enabled |-> channel_enabled,
                   length |-> length, is_booster |-> is_booster]
    /\ \/ bot /\ UNCHANGED achievements
       \/ /\ ~bot
          /\ LET table   == load_or_create(achievements)
                 counted == [table[1] EXCEPT !.message_count = @ + 1]
                 reads   == IF channel_enabled THEN {"message_count", "buffer"}
                            ELSE {"message_count"}
             IN  \/ /\ KeyError(table[1], reads)
                    /\ achievements' = table
                 \/ /\ ~KeyError(table[1], reads)
                    /\ channel_enabled
                    /\ achievements' =
                         update(table, calculate_buffer(counted, length, is_booster))
                 \/ /\ ~KeyError(table[1], reads)
                    /\ ~channel_enabled
                    /\ achievements' = table
    /\ UNCHANGED <<guildRoles, created, modRoles, pc, cmd, user, stats, effects,
                   custom_role, hsv, result, positions, commands>>

\* ------------------------------------------------------------ the commands

\* A command is invoked in the first free slot.
invoke(t) ==
    /\ commands < MaxCommands
    /\ pc[t] = "idle"
    /\ \A u \in Tasks : u < t => pc[u] # "idle"
    /\ commands' = commands + 1

\* The handler of slot t returns or raises: its locals are gone and what it
\* ended with is kept.
ends(t, c, outcome, fields, more) ==
    /\ pc' = [pc EXCEPT ![t] = "idle"]
    /\ cmd' = [cmd EXCEPT ![t] = NoCommand]
    /\ user' = [user EXCEPT ![t] = create_user]
    /\ stats' = [stats EXCEPT ![t] = create_user]
    /\ effects' = [effects EXCEPT ![t] = {}]
    /\ custom_role' = [custom_role EXCEPT ![t] = 0]
    /\ hsv' = [hsv EXCEPT ![t] = NoColor]
    /\ result' =
         [ kind |-> c.kind, cog |-> c.cog, pack |-> c.pack,
           amount |-> c.amount, outcome |-> outcome, fields |-> fields,
           more_times |-> more, effects |-> effects[t],
           buffer_string |-> IF outcome = "purchased"
                             THEN get_buffer_string(stats[t].buffer)
                             ELSE NoString ]

\* The handler of slot t suspends at the await `at`, with `loaded` the stats
\* of its row, `working` its stats dictionary and `rolled` the color it
\* rolled (NoColor where it rolls none).
suspends(t, c, at, loaded, working, rolled) ==
    /\ pc' = [pc EXCEPT ![t] = at]
    /\ cmd' = [cmd EXCEPT ![t] = c]
    /\ user' = [user EXCEPT ![t] = loaded]
    /\ stats' = [stats EXCEPT ![t] = working]
    /\ effects' = [effects EXCEPT ![t] = {}]
    /\ custom_role' = [custom_role EXCEPT ![t] = 0]
    /\ hsv' = [hsv EXCEPT ![t] = rolled]
    /\ UNCHANGED result

\* The handler of slot t goes on from one await to the next.
resumes(t, at, working, returned) ==
    /\ pc' = [pc EXCEPT ![t] = at]
    /\ stats' = [stats EXCEPT ![t] = working]
    /\ effects' = [effects EXCEPT ![t] = @ \cup {returned}]
    /\ UNCHANGED <<cmd, user, hsv, result>>

buy_role_cost(cog) ==
    IF cog = "BuyRoleCog" THEN BuyRoleCog_cost ELSE Achievements_cost

buy_role_rejects(cog, s) ==
    IF cog = "BuyRoleCog" THEN BuyRoleCog_rejects(s) ELSE Achievements_rejects(s)

buy_role_fields(cog, s) ==
    IF cog = "BuyRoleCog" THEN BuyRoleCog_fields(s) ELSE Achievements_fields(s)

\* buy_role of either cog, up to its first await: outside #bots it answers
\* with an error before it opens the table; BuyRoleCog passes the loaded
\* stats through verify_integrity, Achievements reads them as they are; a
\* failed condition sends the error embed and returns; otherwise
\* create_role is awaited.
buy_role(t, cog, in_bots) ==
    LET c     == [kind |-> "buy_role", cog |-> cog, pack |-> "", amount |-> 0]
        table == load_or_create(achievements)
        s     == IF cog = "BuyRoleCog" THEN verify_integrity(table[1])
                 ELSE table[1]
        reads == {"buffer", "user_class", "has_custom_role"}
    IN  /\ invoke(t)
        /\ UNCHANGED <<guildRoles, created, modRoles, positions, message, messages>>
        /\ \/ /\ ~in_bots
              /\ UNCHANGED achievements
              /\ ends(t, c, "wrong_channel", {}, 0)
           \/ /\ in_bots
              /\ achievements' = table
              /\ \/ /\ KeyError(s, reads)
                    /\ ends(t, c, "raised", {}, 0)
                 \/ /\ ~KeyError(s, reads)
                    /\ buy_role_rejects(cog, s)
                    /\ ends(t, c, "failed", buy_role_fields(cog, s), 0)
                 \/ /\ ~KeyError(s, reads)
                    /\ ~buy_role_rejects(cog, s)
                    /\ suspends(t, c, "create_role", s, s, NoColor)

\* create_role returns the new role.
create_role_returns(t) ==
    /\ pc[t] = "create_role"
    /\ created' = created + 1
    /\ guildRoles' = guildRoles \cup {created + 1}
    /\ custom_role' = [custom_role EXCEPT ![t] = created + 1]
    /\ resumes(t, "add_roles", stats[t], "create_role")
    /\ UNCHANGED <<achievements, modRoles, positions, message, messages,
                   commands>>

\* add_roles returns and the row is written with the id at once.
add_roles_returns_id_stored(t) ==
    /\ pc[t] = "add_roles"
    /\ resumes(t, "edit_role_positions",
               [stats[t] EXCEPT !.custom_role_id = custom_role[t]], "add_roles")
    /\ achievements' =
         update(achievements, [stats[t] EXCEPT !.custom_role_id = custom_role[t]])
    /\ positions' = role_positions(role_count)
    /\ UNCHANGED <<guildRoles, created, modRoles, custom_role, message, messages,
                   commands>>

\* add_roles returns: the id is put in the dictionary, the positions are
\* computed and edit_role_positions is awaited.
add_roles_returns(t) ==
    /\ pc[t] = "add_roles"
    /\ resumes(t, "edit_role_positions",
               [stats[t] EXCEPT !.custom_role_id = custom_role[t]], "add_roles")
    /\ positions' = role_positions(role_count)
    /\ UNCHANGED <<achievements, guildRoles, created, modRoles, custom_role, message,
                   messages, commands>>

\* edit_role_positions returns: the cost is taken from the dictionary, the
\* role is marked as owned and the success embed is sent.
edit_role_positions_returns(t) ==
    /\ pc[t] = "edit_role_positions"
    /\ resumes(t, "send",
               [stats[t] EXCEPT !.buffer = @ - MB(buy_role_cost(cmd[t].cog)),
                                !.has_custom_role = TRUE],
               "edit_role_positions")
    /\ UNCHANGED <<achievements, guildRoles, created, modRoles, custom_role, positions,
                   message, messages, commands>>

\* Achievements.buy_color up to its first await: the conditions, then
\* generate_hsv, which rolls `saturation` and `value`, and the lookup of the
\* role by custom_role_id; role.edit is awaited on the role found (None has
\* no edit: the handler raises).
buy_color(t, in_bots, saturation, value) ==
    LET c     == [kind |-> "buy_color", cog |-> "Achievements", pack |-> "",
                  amount |-> 0]
        table == load_or_create(achievements)
        s     == table[1]
        reads == {"buffer", "hue_upgrade", "has_custom_role"}
        rolls == {"saturation_upgrade", "value_upgrade", "custom_role_id"}
    IN  /\ invoke(t)
        /\ UNCHANGED <<guildRoles, created, modRoles, positions, message, messages>>
        /\ \/ /\ ~in_bots
              /\ UNCHANGED achievements
              /\ ends(t, c, "wrong_channel", {}, 0)
           \/ /\ in_bots
              /\ achievements' = table
              /\ \/ /\ KeyError(s, reads)
                    /\ ends(t, c, "raised", {}, 0)
                 \/ /\ ~KeyError(s, reads)
                    /\ buy_color_rejects(s)
                    /\ ends(t, c, "failed", buy_color_fields(s), 0)
                 \/ /\ ~KeyError(s, reads)
                    /\ ~buy_color_rejects(s)
                    /\ \/ KeyError(s, rolls)
                       \/ generate_hsv_raises(s)
                       \/ get_role(s) = None
                    /\ ends(t, c, "raised", {}, 0)
                 \/ /\ ~KeyError(s, reads \cup rolls)
                    /\ ~buy_color_rejects(s)
                    /\ generate_hsv_returns(s, saturation, value)
                    /\ get_role(s) # None
                    /\ suspends(t, c, "role_edit", s, s,
                                [saturation |-> saturation, value |-> value])

\* role.edit returns and the row is written at once, before the embed.
role_edit_returns_row_written(t) ==
    /\ pc[t] = "role_edit"
    /\ resumes(t, "send", [stats[t] EXCEPT !.buffer = @ - MB(buy_color_cost)],
               "role_edit")
    /\ achievements' =
         update(achievements, [stats[t] EXCEPT !.buffer = @ - MB(buy_color_cost)])
    /\ UNCHANGED <<guildRoles, created, modRoles, custom_role, positions, message,
                   messages, commands>>

\* role.edit returns: the cost is taken from the dictionary and the embed
\* with the rolled color is sent.
role_edit_returns(t) ==
    /\ pc[t] = "role_edit"
    /\ resumes(t, "send", [stats[t] EXCEPT !.buffer = @ - MB(buy_color_cost)],
               "role_edit")
    /\ UNCHANGED <<achievements, guildRoles, created, modRoles, custom_role, positions,
                   message, messages, commands>>

\* Achievements.upgrade_hue up to its await of ctx.send.
upgrade_hue(t, pack) ==
    LET c     == [kind |-> "upgrade_hue", cog |-> "Achievements",
                  pack |-> pack, amount |-> 0]
        table == load_or_create(achievements)
        s     == table[1]
        added == IF \E color \in colors : pack = color
                 THEN [s EXCEPT !.hue_upgrade = Append(@, pack)]
                 ELSE s
        reads == {"hue_upgrade", "buffer", "has_custom_role"}
    IN  /\ invoke(t)
        /\ UNCHANGED <<guildRoles, created, modRoles, positions, message, messages>>
        /\ achievements' = table
        /\ \/ /\ KeyError(s, reads)
              /\ ends(t, c, "raised", {}, 0)
           \/ /\ ~KeyError(s, reads)
              /\ upgrade_hue_rejects(s, pack)
              /\ ends(t, c, "failed", upgrade_hue_fields(s, pack), 0)
           \/ /\ ~KeyError(s, reads)
              /\ ~upgrade_hue_rejects(s, pack)
              /\ suspends(t, c, "send", s,
                          [added EXCEPT !.buffer = @ - MB(upgrade_hue_cost)],
                          NoColor)

\* Achievements.upgrade_saturation up to its await of ctx.send.
upgrade_saturation(t, amount) ==
    LET c     == [kind |-> "upgrade_saturation", cog |-> "Achievements",
                  pack |-> "", amount |-> amount]
        table == load_or_create(achievements)
        s     == table[1]
        level == s.saturation_upgrade
        reads == {"saturation_upgrade", "buffer", "hue_upgrade", "has_custom_role"}
    IN  /\ invoke(t)
        /\ UNCHANGED <<guildRoles, created, modRoles, positions, message, messages>>
        /\ achievements' = table
        /\ \/ /\ KeyError(s, reads)
              /\ ends(t, c, "raised", {}, 0)
           \/ /\ ~KeyError(s, reads)
              /\ upgrade_rejects(s, level, amount)
              /\ ends(t, c, "failed", upgrade_fields(s, level, amount),
                      more_times(level))
           \/ /\ ~KeyError(s, reads)
              /\ ~upgrade_rejects(s, level, amount)
              /\ suspends(t, c, "send", s,
                          [s EXCEPT !.saturation_upgrade = @ + amount],
                          NoColor)

\* Achievements.upgrade_value up to its await of ctx.send.
upgrade_value(t, amount) ==
    LET c     == [kind |-> "upgrade_value", cog |-> "Achievements",
                  pack |-> "", amount |-> amount]
        table == load_or_create(achievements)
        s     == table[1]
        level == s.value_upgrade
        reads == {"value_upgrade", "buffer", "hue_upgrade", "has_custom_role"}
    IN  /\ invoke(t)
        /\ UNCHANGED <<guildRoles, created, modRoles, positions, message, messages>>
        /\ achievements' = table
        /\ \/ /\ KeyError(s, reads)
              /\ ends(t, c, "raised", {}, 0)
           \/ /\ ~KeyError(s, reads)
              /\ upgrade_rejects(s, level, amount)
              /\ ends(t, c, "failed", upgrade_fields(s, level, amount),
                      more_times(level))
           \/ /\ ~KeyError(s, reads)
              /\ ~upgrade_rejects(s, level, amount)
              /\ suspends(t, c, "send", s,
                          [s EXCEPT !.value_upgrade = @ + amount], NoColor)

\* The write of a purchase that assigns the class of the buffer it leaves.
send_returns_class_assigned(t) ==
    /\ pc[t] = "send"
    /\ achievements' =
         update(achievements,
                [stats[t] EXCEPT !.user_class = assigned_user_class(stats[t])])
    /\ ends(t, cmd[t], "purchased", {}, 0)
    /\ UNCHANGED <<guildRoles, created, modRoles, positions, message, messages, commands>>

\* ctx.send of the success embed returns: the dictionary is written to the
\* row and committed.
send_returns(t) ==
    /\ pc[t] = "send"
    /\ achievements' = update(achievements, stats[t])
    /\ ends(t, cmd[t], "purchased", {}, 0)
    /\ UNCHANGED <<guildRoles, created, modRoles, positions, message, messages, commands>>

\* The handler writes its dictionary to the row before the exception leaves it.
platform_call_raises_after_update(t) ==
    /\ pc[t] # "idle"
    /\ achievements' = update(achievements, stats[t])
    /\ ends(t, cmd[t], "raised", {}, 0)
    /\ UNCHANGED <<guildRoles, created, modRoles, positions, message, messages, commands>>

\* The platform call the handler awaits raises (discord.HTTPException,
\* Forbidden, NotFound): the handler ends there and writes nothing.
platform_call_raises(t) ==
    /\ pc[t] # "idle"
    /\ ends(t, cmd[t], "raised", {}, 0)
    /\ UNCHANGED <<achievements, guildRoles, created, modRoles, positions, message,
                   messages, commands>>

Next ==
    \/ \E bot \in BOOLEAN, channel_enabled \in BOOLEAN, length \in Lengths,
          is_booster \in Boosters :
            on_message(bot, channel_enabled, length, is_booster)
    \/ \E t \in Tasks, cog \in {"BuyRoleCog", "Achievements"},
          in_bots \in BOOLEAN : buy_role(t, cog, in_bots)
    \/ \E t \in Tasks, in_bots \in BOOLEAN, saturation \in Rolls,
          value \in Rolls : buy_color(t, in_bots, saturation, value)
    \/ \E t \in Tasks, pack \in Packs : upgrade_hue(t, pack)
    \/ \E t \in Tasks, amount \in Amounts : upgrade_saturation(t, amount)
    \/ \E t \in Tasks, amount \in Amounts : upgrade_value(t, amount)
    \/ \E t \in Tasks : create_role_returns(t)
    \/ \E t \in Tasks : add_roles_returns(t)
    \/ \E t \in Tasks : edit_role_positions_returns(t)
    \/ \E t \in Tasks : role_edit_returns(t)
    \/ \E t \in Tasks : send_returns(t)
    \/ \E t \in Tasks : platform_call_raises(t)

Spec == Init /\ [][Next]_vars

\* ------------------------------------------------- the listener on its own

\* Rows that messages alone produce, for the listener to be run on with
\* every word count:
\*   bandMemberRow  257 messages of 40 buffer and one of 10 among 999: from
\*                  10240 buffer on no branch of the chain is taken before
\*                  the 1000th message, and the class stays Member;
\*   bandUserRow    the same buffer after 1199 messages, User since the
\*                  1000th;
\*   veteranRow(k)  20 buffer under the floor of tier k after 80000 messages:
\*                  every message floor is met, the class is that of tier
\*                  k - 1, which the 80000th message assigned;
\*   lateMemberRow  29990 buffer after 1999 messages, 25600 of it from the
\*                  first 999: the chain took no branch from 10240 buffer
\*                  on, and the class stays Member;
\*   lateUserRow    the same buffer and count, 10240 to 25600 of it reached
\*                  after the 1000th message: User since then, and no branch
\*                  taken from 25600 buffer on;
\* and buyerRow, powerUserRow after BuyRoleCog.buy_role: 10240 buffer less,
\* still Power User, the role in the guild.
bandMemberRow ==
    [create_user EXCEPT !.message_count = 999, !.buffer = MB(10290)]

bandUserRow ==
    [create_user EXCEPT !.user_class = "User", !.message_count = 1199,
                        !.buffer = MB(10290)]

veteranRow(k) ==
    [create_user EXCEPT !.user_class = user_classes[k - 1],
                        !.message_count = 80000,
                        !.buffer = MB(assigned_floor[k] - 20)]

lateMemberRow ==
    [create_user EXCEPT !.message_count = 1999, !.buffer = MB(29990)]

lateUserRow ==
    [create_user EXCEPT !.user_class = "User", !.message_count = 1999,
                        !.buffer = MB(29990)]

buyerRow ==
    [powerUserRow EXCEPT !.buffer = MB(25600 - 10240), !.has_custom_role = TRUE,
                         !.custom_role_id = 1]

MessageRows ==
    {memberRow, powerUserRow, eliteRow, bandMemberRow, bandUserRow,
     lateMemberRow, lateUserRow}
        \cup {veteranRow(k) : k \in 2..8}

MessageInit ==
    /\ \/ /\ achievements \in {<<>>} \cup {<<row>> : row \in MessageRows}
          /\ guildRoles = {}
          /\ created = 0
       \/ achievements = <<buyerRow>> /\ guildRoles = {1} /\ created = 1
    /\ modRoles = mod_role_count
    /\ pc = [t \in Tasks |-> "idle"]
    /\ cmd = [t \in Tasks |-> NoCommand]
    /\ user = [t \in Tasks |-> create_user]
    /\ stats = [t \in Tasks |-> create_user]
    /\ effects = [t \in Tasks |-> {}]
    /\ custom_role = [t \in Tasks |-> 0]
    /\ hsv = [t \in Tasks |-> NoColor]
    /\ result = NoResult
    /\ positions = NoPositions
    /\ message = NoMessage
    /\ messages = 0
    /\ commands = 0

MessageNext ==
    \E bot \in BOOLEAN, channel_enabled \in BOOLEAN, length \in MessageLengths,
       is_booster \in BOOLEAN :
         on_message(bot, channel_enabled, length, is_booster)

MessageSpec == MessageInit /\ [][MessageNext]_vars

\* ------------------------------------------------- buy role on its own

\* The buy role commands of a member who can buy, in a guild that holds up to
\* MaxOtherRoles custom roles of other members: every buy role of another
\* member has added one.
PlacementInit ==
    /\ achievements \in {<<powerUserRow>>, <<eliteRow>>}
    /\ \E others \in 0..MaxOtherRoles :
         guildRoles = 1..others /\ created = others
    /\ modRoles = mod_role_count
    /\ pc = [t \in Tasks |-> "idle"]
    /\ cmd = [t \in Tasks |-> NoCommand]
    /\ user = [t \in Tasks |-> create_user]
    /\ stats = [t \in Tasks |-> create_user]
    /\ effects = [t \in Tasks |-> {}]
    /\ custom_role = [t \in Tasks |-> 0]
    /\ hsv = [t \in Tasks |-> NoColor]
    /\ result = NoResult
    /\ positions = NoPositions
    /\ message = NoMessage
    /\ messages = 0
    /\ commands = 0

PlacementNext ==
    \/ \E t \in Tasks, cog \in {"BuyRoleCog", "Achievements"},
          in_bots \in BOOLEAN : buy_role(t, cog, in_bots)
    \/ \E t \in Tasks : create_role_returns(t)
    \/ \E t \in Tasks : add_roles_returns(t)
    \/ \E t \in Tasks : edit_role_positions_returns(t)
    \/ \E t \in Tasks : send_returns(t)
    \/ \E t \in Tasks : platform_call_raises(t)

PlacementSpec == PlacementInit /\ [][PlacementNext]_vars

\* ------------------------------------------------- buy role in any guild

\* The buy role commands in a guild with any number of roles above the
\* custom roles, from none to the mod_role_count the code counts on, and
\* with no custom role or one of another member: len(ctx.guild.roles) is 2
\* or more when the positions are computed.
GuildModRoles == 0..mod_role_count

GuildInit ==
    /\ achievements \in {<<powerUserRow>>, <<eliteRow>>}
    /\ \E others \in 0..1 : guildRoles = 1..others /\ created = others
    /\ modRoles \in GuildModRoles
    /\ pc = [t \in Tasks |-> "idle"]
    /\ cmd = [t \in Tasks |-> NoCommand]
    /\ user = [t \in Tasks |-> create_user]
    /\ stats = [t \in Tasks |-> create_user]
    /\ effects = [t \in Tasks |-> {}]
    /\ custom_role = [t \in Tasks |-> 0]
    /\ hsv = [t \in Tasks |-> NoColor]
    /\ result = NoResult
    /\ positions = NoPositions
    /\ message = NoMessage
    /\ messages = 0
    /\ commands = 0

GuildSpec == GuildInit /\ [][PlacementNext]_vars

\* ------------------------------------------------- reroll color on its own

\* Rows of a member who can reroll, for buy_color to be run on with every
\* roll of generate_hsv: the custom role and the red pack bought, the caps of
\* saturation and value raised to one of CapPairs, and as much buffer that
\* one reroll leaves 1023, 1024, 1024 * 1024 - 1 or 1024 * 1024: the two
\* thresholds of get_buffer_string and the buffer just under each.  The
\* rows of the upper threshold are of a Legend of 80000 messages, the others
\* of the Power User of ownerRow.  The role is in the guild, or a moderator
\* has deleted it there and the row still names it.
RerollLeaves == {1023, 1024, 1024 * 1024 - 1, 1024 * 1024}

CapPairs == {<<0, 0>>, <<1, 2>>, <<100, 0>>, <<0, 100>>}

RerollRolls == {0, 1, 2, 3, 100, 101}

rollerRow(leaves, caps) ==
    [ownerRow EXCEPT
        !.user_class = IF leaves >= 1024 * 1024 - 1 THEN "Legend" ELSE @,
        !.message_count = IF leaves >= 1024 * 1024 - 1 THEN 80000 ELSE @,
        !.buffer = MB(leaves + buy_color_cost),
        !.saturation_upgrade = caps[1],
        !.value_upgrade = caps[2]]

RerollInit ==
    /\ achievements \in
         {<<rollerRow(leaves, caps)>> : leaves \in RerollLeaves, caps \in CapPairs}
    /\ guildRoles \in {{1}, {}}
    /\ created = 1
    /\ modRoles = mod_role_count
    /\ pc = [t \in Tasks |-> "idle"]
    /\ cmd = [t \in Tasks |-> NoCommand]
    /\ user = [t \in Tasks |-> create_user]
    /\ stats = [t \in Tasks |-> create_user]
    /\ effects = [t \in Tasks |-> {}]
    /\ custom_role = [t \in Tasks |-> 0]
    /\ hsv = [t \in Tasks |-> NoColor]
    /\ result = NoResult
    /\ positions = NoPositions
    /\ message = NoMessage
    /\ messages = 0
    /\ commands = 0

RerollNext ==
    \/ \E t \in Tasks, in_bots \in BOOLEAN, saturation \in RerollRolls,
          value \in RerollRolls : buy_color(t, in_bots, saturation, value)
    \/ \E t \in Tasks : role_edit_returns(t)
    \/ \E t \in Tasks : send_returns(t)
    \/ \E t \in Tasks : platform_call_raises(t)

RerollSpec == RerollInit /\ [][RerollNext]_vars

\* ------------------------------------------------- rows of an older schema

\* Rows written before the color upgrades were added to create_user: they
\* have no hue_upgrade, saturation_upgrade and value_upgrade.  These are the
\* rows verify_integrity is called for.  The listener and every purchase
\* run on the rows of a Power User, of an Elite and of the owner of a custom
\* role.
LegacyMissing == {"hue_upgrade", "saturation_upgrade", "value_upgrade"}

legacyRow(row) == [key \in DOMAIN row \ LegacyMissing |-> row[key]]

LegacyInit ==
    /\ \/ /\ achievements \in {<<legacyRow(powerUserRow)>>, <<legacyRow(eliteRow)>>}
          /\ guildRoles = {}
          /\ created = 0
       \/ achievements = <<legacyRow(buyerRow)>> /\ guildRoles = {1} /\ created = 1
    /\ modRoles = mod_role_count
    /\ pc = [t \in Tasks |-> "idle"]
    /\ cmd = [t \in Tasks |-> NoCommand]
    /\ user = [t \in Tasks |-> create_user]
    /\ stats = [t \in Tasks |-> create_user]
    /\ effects = [t \in Tasks |-> {}]
    /\ custom_role = [t \in Tasks |-> 0]
    /\ hsv = [t \in Tasks |-> NoColor]
    /\ result = NoResult
    /\ positions = NoPositions
    /\ message = NoMessage
    /\ messages = 0
    /\ commands = 0

LegacyNext ==
    \/ \E bot \in BOOLEAN, channel_enabled \in BOOLEAN, length \in Lengths,
          is_booster \in Boosters :
            on_message(bot, channel_enabled, length, is_booster)
    \/ \E t \in Tasks, cog \in {"BuyRoleCog", "Achievements"},
          in_bots \in BOOLEAN : buy_role(t, cog, in_bots)
    \/ \E t \in Tasks, in_bots \in BOOLEAN, saturation \in Rolls,
          value \in Rolls : buy_color(t, in_bots, saturation, value)
    \/ \E t \in Tasks, pack \in Packs : upgrade_hue(t, pack)
    \/ \E t \in Tasks, amount \in Amounts : upgrade_saturation(t, amount)
    \/ \E t \in Tasks, amount \in Amounts : upgrade_value(t, amount)
    \/ \E t \in Tasks : create_role_returns(t)
    \/ \E t \in Tasks : add_roles_returns(t)
    \/ \E t \in Tasks : edit_role_positions_returns(t)
    \/ \E t \in Tasks : send_returns(t)
    \/ \E t \in Tasks : platform_call_raises(t)

LegacySpec == LegacyInit /\ [][LegacyNext]_vars

\* ======================================================== the specification
\* What spec.md states, for the claims below to compare the code with.

\* 4.1, the threshold table of deriveRank.
BufferFloor == <<0, 10240, 25600, 51200, 102400, 256000, 512000, 1048576>>

MessageFloor == <<0, 1000, 2500, 5000, 10000, 22500, 45000, 80000>>

Qualifies(k, buffer, message_count) ==
    buffer >= MB(BufferFloor[k]) /\ message_count >= MessageFloor[k]

\* The highest tier whose two floors are both met; Member (tier 1) always is.
deriveRank(buffer, message_count) ==
    user_classes[CHOOSE k \in 1..8 :
        /\ Qualifies(k, buffer, message_count)
        /\ \A j \in (k + 1)..8 : ~Qualifies(j, buffer, message_count)]

\* computeAccrual: the multiplier of the bracket [SpecBracket[i],
\* SpecBracket[i + 1]) that holds L, times L, times 1.2 for a booster, at
\* most 40; in thousandths.
SpecBracket == <<0, 3, 5, 8, 11, 16>>

SpecMultiplier(L) ==
    LET i == CHOOSE j \in 1..6 :
                 L >= SpecBracket[j] /\ (j < 6 => L < SpecBracket[j + 1])
    IN  <<330, 670, 900, 1000, 1100, 1200>>[i]

SpecAccrual(L, booster) ==
    LET raw == IF booster THEN (L * SpecMultiplier(L) * 12) \div 10
               ELSE L * SpecMultiplier(L)
    IN  IF raw < MB(40) THEN raw ELSE MB(40)

\* The place of a class in the order of the tiers, and the buffers next to
\* the floors of the table.
Tier(class) == CHOOSE k \in 1..8 : user_classes[k] = class

FloorBuffers ==
    {MB(BufferFloor[k]) - d : k \in 2..8, d \in {0, 1}} \cup {0}

\* 4.2, the table of purchases: the conditions of command c that the stats s
\* do not meet.
SpecCost(c, s) ==
    CASE c.kind = "buy_role" -> 10240
      [] c.kind = "buy_color" -> 128
      [] c.kind = "upgrade_hue" -> 2048
      [] c.kind = "upgrade_saturation" -> 3 * (s.saturation_upgrade + c.amount)
      [] c.kind = "upgrade_value" -> 3 * (s.value_upgrade + c.amount)

SpecLevel(c, s) ==
    IF c.kind = "upgrade_saturation" THEN s.saturation_upgrade
    ELSE s.value_upgrade

SpecOwns(s, pack) == \E i \in 1..Len(s.hue_upgrade) : s.hue_upgrade[i] = pack

SpecUnmet(c, s) ==
    {x \in {"buffer"} : s.buffer < MB(SpecCost(c, s))}
    \cup {x \in {"rank"} :
            /\ c.kind = "buy_role"
            /\ s.user_class \notin
                 {"Power User", "Elite", "Torrent Master", "Power TM",
                  "Elite TM", "Legend"}}
    \cup {x \in {"owns_role"} : c.kind = "buy_role" /\ s.has_custom_role}
    \cup {x \in {"no_role"} : c.kind # "buy_role" /\ ~s.has_custom_role}
    \cup {x \in {"no_pack"} :
            /\ c.kind \in {"buy_color", "upgrade_saturation", "upgrade_value"}
            /\ Len(s.hue_upgrade) = 0}
    \cup {x \in {"unknown_pack"} : c.kind = "upgrade_hue" /\ c.pack \notin colors}
    \cup {x \in {"owned"} : c.kind = "upgrade_hue" /\ SpecOwns(s, c.pack)}
    \cup {x \in {"cap"} :
            /\ c.kind \in {"upgrade_saturation", "upgrade_value"}
            /\ SpecLevel(c, s) + c.amount > 100}

\* The conditions of 4.2 that the fields of a failure embed report.
Reported(fields) ==
    {IF f = "user_class" THEN "rank"
     ELSE IF f = "availability" THEN "cap"
     ELSE f : f \in fields}

\* ------------------------------------------------- the steps claims speak of

\* A command is invoked in this step, and the command it is.
Invoking == commands' = commands + 1

Starting(t) == pc[t] = "idle" /\ pc'[t] # "idle"

Invoked ==
    IF \E t \in Tasks : Starting(t)
    THEN cmd'[CHOOSE t \in Tasks : Starting(t)]
    ELSE [kind |-> result'.kind, cog |-> result'.cog, pack |-> result'.pack,
          amount |-> result'.amount]

\* The invoked command returned in the step it was invoked in, with the
\* "Transaction failed" embed.
RejectedAtOnce == pc' = pc /\ result'.outcome = "failed"

\* Task t writes its dictionary to the row in this step.
Persisting(t) == pc[t] = "send" /\ pc'[t] = "idle" /\ result'.outcome = "purchased"

\* A message event is handled in this step and its row is written.
Accruing ==
    /\ messages' = messages + 1
    /\ achievements' # <<>>
    /\ achievements'[1].message_count = loaded_stats(achievements).message_count + 1

Stored == achievements[1]

\* ================================================================ the claims

\* C1: a purchase invoked on an existing row with at least one condition of
\* the table of 4.2 unmet returns at once with the failure embed, leaves the
\* row and the guild's roles as they were and has made no platform call; no
\* command is ever suspended past its checks on stats that miss a condition.
C1_RejectedPurchaseChangesNothing ==
    [][ /\ ( /\ Invoking
             /\ find_one(achievements)
             /\ result'.outcome # "wrong_channel"
             /\ SpecUnmet(Invoked, Stored) # {} )
          => /\ RejectedAtOnce
             /\ achievements' = achievements
             /\ guildRoles' = guildRoles
             /\ created' = created
             /\ result'.effects = {}
        /\ \A t \in Tasks :
             pc'[t] # "idle" => SpecUnmet(cmd'[t], user'[t]) = {} ]_vars

C1_Witness ==
    /\ result.kind = "buy_role"
    /\ result.outcome = "failed"
    /\ "owns_role" \in result.fields
    /\ achievements = <<ownerRow>>

\* C2: the stored buffer is never negative.
C2_BufferNeverNegative ==
    find_one(achievements) => Stored.buffer >= 0

\* A purchase has left less buffer than buy_color costs, and buy_color was
\* refused for it.
C2_Witness ==
    /\ find_one(achievements)
    /\ Stored.buffer = MB(2100 - 2048)
    /\ result.kind = "buy_color"
    /\ result.outcome = "failed"
    /\ result.fields = {"buffer"}

\* C3 (as claimed): a buy role command of either cog that writes the row
\* loaded a buffer of at least 10240, a class from Power User up and no custom
\* role, and writes the loaded stats with 10240 less buffer, has_custom_role
\* set and the id of the role it created.
C3_BuyRoleTakes10240 ==
    [][ \A t \in Tasks :
          (Persisting(t) /\ cmd[t].kind = "buy_role")
            => /\ SpecUnmet(cmd[t], user[t]) = {}
               /\ achievements' =
                    <<[user[t] EXCEPT !.buffer = @ - MB(10240),
                                      !.has_custom_role = TRUE,
                                      !.custom_role_id = custom_role[t]]>> ]_vars

\* C4 (as claimed): a cap upgrade of `amount` (more than none) that writes
\* the row writes the loaded buffer less 3 * (cap + amount) and the cap
\* raised by `amount`.
C4_UpgradeTakesInflatedCost ==
    [][ \A t \in Tasks :
          ( /\ Persisting(t)
            /\ cmd[t].kind \in {"upgrade_saturation", "upgrade_value"}
            /\ cmd[t].amount > 0 )
            => /\ achievements'[1].buffer =
                    user[t].buffer - MB(3 * (SpecLevel(cmd[t], user[t]) + cmd[t].amount))
               /\ SpecLevel(cmd[t], achievements'[1]) =
                    SpecLevel(cmd[t], user[t]) + cmd[t].amount ]_vars

\* C5 (as claimed): the row a message event writes has the class deriveRank
\* gives for its buffer and message count.
C5_ActivityAssignsDerivedRank ==
    [][ Accruing =>
          achievements'[1].user_class =
            deriveRank(achievements'[1].buffer, achievements'[1].message_count)
      ]_vars

InBand(s) ==
    \E k \in 1..8 :
        /\ Qualifies(k, s.buffer, s.message_count)
        /\ k < 8 => s.buffer < MB(BufferFloor[k + 1])

C7_OwnedPackIsRejected ==
    [][ ( /\ Invoking
          /\ find_one(achievements)
          /\ Invoked.kind = "upgrade_hue"
          /\ SpecOwns(Stored, Invoked.pack) )
        => /\ RejectedAtOnce
           /\ "owned" \in result'.fields
           /\ achievements' = achievements ]_vars

\* A pack was bought and asked for again.
C7_Witness ==
    /\ result.kind = "upgrade_hue"
    /\ result.pack = "yellow"
    /\ result.outcome = "failed"
    /\ "owned" \in result.fields
    /\ Stored.hue_upgrade = <<"red", "yellow">>
    /\ Stored.buffer = MB(2100 - 2048)

\* C8: hue_upgrade of the stored row holds names of packs only, none twice.
C8_HueUpgradeHasNoDuplicates ==
    find_one(achievements) =>
        /\ \A i \in 1..Len(Stored.hue_upgrade) : Stored.hue_upgrade[i] \in colors
        /\ \A i, j \in 1..Len(Stored.hue_upgrade) :
             Stored.hue_upgrade[i] = Stored.hue_upgrade[j] => i = j

\* Two upgrade_hue commands for the same pack ran at the same time; one has
\* written the row and the other is about to.
C8_Witness ==
    /\ find_one(achievements)
    /\ Stored.hue_upgrade = <<"red", "yellow">>
    /\ \E t \in Tasks :
         /\ pc[t] = "send"
         /\ cmd[t].kind = "upgrade_hue"
         /\ cmd[t].pack = "yellow"

\* C9: saturation_upgrade and value_upgrade of the stored row are at most 100.
C9_CapsAtMost100 ==
    find_one(achievements) =>
        Stored.saturation_upgrade <= 100 /\ Stored.value_upgrade <= 100

\* A purchase has taken the saturation cap to 100.
C9_Witness ==
    /\ find_one(achievements)
    /\ Stored.saturation_upgrade = 100
    /\ result.kind = "upgrade_saturation"
    /\ result.amount = 5
    /\ result.outcome = "purchased"

\* C10: a cap upgrade that would take the loaded cap c above 100 returns at
\* once with the failure embed, leaves the row as loaded, and its
\* availability field shows 100 - c.
C10_ExcessUpgradeReportsAllowance ==
    [][ ( /\ Invoking
          /\ Invoked.kind \in {"upgrade_saturation", "upgrade_value"}
          /\ SpecLevel(Invoked, loaded_stats(achievements)) + Invoked.amount > 100 )
        => /\ RejectedAtOnce
           /\ achievements' = load_or_create(achievements)
           /\ "availability" \in result'.fields
           /\ result'.more_times =
                100 - SpecLevel(Invoked, loaded_stats(achievements)) ]_vars

\* The example of the specification: cap 95, amount 10, 5 more times.
C10_Witness ==
    /\ result.kind = "upgrade_saturation"
    /\ result.amount = 10
    /\ result.outcome = "failed"
    /\ "availability" \in result.fields
    /\ result.more_times = 5
    /\ Stored.saturation_upgrade = 95

\* C11: a message event adds at least 0 and at most 40 to the buffer of the
\* row, whatever the word count and the booster flag.
C11_AccrualAtMost40 ==
    [][ (messages' = messages + 1 /\ achievements' # <<>>)
          => /\ achievements'[1].buffer - loaded_stats(achievements).buffer >= 0
             /\ achievements'[1].buffer - loaded_stats(achievements).buffer
                  <= MB(40) ]_vars

\* A message of 34 words, 40.8 before the cap, has added 40.
C11_Witness ==
    /\ message.length = 34
    /\ ~message.bot /\ message.channel_enabled /\ ~message.is_booster
    /\ achievements = <<[create_user EXCEPT !.message_count = 1,
                                            !.buffer = MB(40)]>>

\* C12: the first message of a user without a row, L words in an enabled
\* channel, leaves the row with message_count 1, class Member and the buffer
\* computeAccrual gives for L and the booster flag.
C12_FirstMessageAccrues ==
    [][ ( /\ achievements = <<>>
          /\ messages' = messages + 1
          /\ ~message'.bot
          /\ message'.channel_enabled )
        => achievements' =
             <<[create_user EXCEPT
                  !.message_count = 1,
                  !.buffer = SpecAccrual(message'.length, message'.is_booster)]>>
      ]_vars

\* The scenario of the specification: 10 words, no booster, buffer 10.
C12_Witness ==
    /\ message.length = 10
    /\ ~message.bot /\ message.channel_enabled /\ ~message.is_booster
    /\ achievements = <<[create_user EXCEPT !.message_count = 1,
                                            !.buffer = MB(10)]>>

\* C13 (as claimed): a message of a sender that is not a bot leaves the row
\* with message_count one more than loaded, in an enabled channel or not, and
\* in a channel that is not enabled with the buffer as loaded.
C13_EveryMessageIsCounted ==
    [][ (messages' = messages + 1 /\ ~message'.bot)
          => /\ achievements' # <<>>
             /\ achievements'[1].message_count =
                  loaded_stats(achievements).message_count + 1
             /\ ~message'.channel_enabled =>
                  achievements'[1].buffer = loaded_stats(achievements).buffer
      ]_vars

\* C14 (as claimed): message_count of the stored row never decreases from one
\* state to the next.
C14_MessageCountNeverDecreases ==
    [][ find_one(achievements) =>
          achievements'[1].message_count >= Stored.message_count ]_vars

\* C15: once has_custom_role of the stored row is true it is true in the
\* next state, whatever is written to the row.
C15_CustomRoleIsKept ==
    [][ (find_one(achievements) /\ Stored.has_custom_role)
          => achievements'[1].has_custom_role ]_vars

\* A buy role command has written the row while a command that loaded the
\* row without the role is still to write it.
C15_Witness ==
    /\ find_one(achievements)
    /\ Stored.has_custom_role
    /\ result.kind = "buy_role"
    /\ result.outcome = "purchased"
    /\ \E t \in Tasks : pc[t] = "send" /\ ~user[t].has_custom_role

\* C16: a purchase whose create_role, add_roles, edit_role_positions or
\* role.edit fails ends without writing the row; no step but a message
\* event, the load of an invoked command and the write after the success
\* embed changes the table; and a command invoked later starts from the
\* row as it is stored then.
C16_FailedPlatformCallWritesNothing ==
    [][ /\ \A t \in Tasks :
             ( /\ pc[t] \in {"create_role", "add_roles", "edit_role_positions",
                              "role_edit"}
               /\ pc'[t] = "idle" )
             => /\ result'.outcome = "raised"
                /\ achievements' = achievements
        /\ achievements' # achievements =>
             \/ messages' = messages + 1
             \/ Invoking /\ achievements' = load_or_create(achievements)
             \/ \E t \in Tasks : Persisting(t)
        /\ \A t \in Tasks :
             Starting(t) => user'[t] = loaded_stats(achievements) ]_vars

\* edit_role_positions has failed for a buy role command, and the command
\* invoked again has passed its checks on the row as it was.
C16_Witness ==
    /\ result.kind = "buy_role"
    /\ result.outcome = "raised"
    /\ result.effects = {"create_role", "add_roles"}
    /\ achievements = <<powerUserRow>>
    /\ \E t \in Tasks :
         /\ pc[t] = "create_role"
         /\ cmd[t].kind = "buy_role"
         /\ user[t] = powerUserRow

\* C17 (as claimed): the failure embed of a rejected purchase reports the
\* conditions of 4.2 that the loaded stats do not meet, all of them and no
\* other.
C17_FailureReportsUnmetConditions ==
    [][ (Invoking /\ RejectedAtOnce)
          => Reported(result'.fields) =
               SpecUnmet(Invoked, loaded_stats(achievements)) ]_vars

C19_RankGrowsWithBuffer ==
    [][ (Accruing /\ achievements'[1].message_count >= 80000)
          => \A b \in FloorBuffers :
               LET at_b == assigned_user_class(
                               [achievements'[1] EXCEPT !.buffer = b])
               IN  /\ b >= achievements'[1].buffer =>
                        Tier(at_b) >= Tier(achievements'[1].user_class)
                   /\ b <= achievements'[1].buffer =>
                        Tier(at_b) <= Tier(achievements'[1].user_class)
      ]_vars

\* A message has taken a member with 80000 messages over the floor of Legend.
C19_Witness ==
    /\ find_one(achievements)
    /\ Stored.message_count = 80001
    /\ Stored.buffer = MB(1048576 + 20)
    /\ Stored.user_class = "Legend"

\* C20: a message event that leaves the buffer in [10240, 25600) and the
\* message count at 1000 or more writes the class User, whatever class it
\* loaded.
C20_UserBandAssignsUser ==
    [][ ( /\ Accruing
          /\ achievements'[1].buffer >= MB(10240)
          /\ achievements'[1].buffer < MB(25600)
          /\ achievements'[1].message_count >= 1000 )
        => achievements'[1].user_class = "User" ]_vars

\* The instance of the specification: buffer 10300 and 1200 messages.
C20_Witness ==
    /\ achievements = <<[bandUserRow EXCEPT !.message_count = 1200,
                                            !.buffer = MB(10300)]>>
    /\ message.length = 10
    /\ ~message.is_booster

C22_MissingFieldsAreRepaired ==
    [][/\ Invoking /\ achievements # <<>> /\ KeyError(Stored, DOMAIN create_user)
          => ~(pc' = pc /\ result'.outcome = "raised")
       /\ achievements' # achievements /\ achievements' # <<>>
          => ~KeyError(achievements'[1], DOMAIN create_user)]_vars

\* C23: a reroll invoked in #bots on a row that meets every condition of 4.2
\* while no role of the guild has the row's custom_role_id ends at once by
\* raising: role.edit was not called, no color was kept, and the row, its
\* buffer included, is as it was.
C23_DeletedRoleFailsReroll ==
    [][ ( /\ Invoking
          /\ Invoked.kind = "buy_color"
          /\ ~(pc' = pc /\ result'.outcome = "wrong_channel")
          /\ SpecUnmet(Invoked, Stored) = {}
          /\ Stored.custom_role_id \notin guildRoles )
        => /\ pc' = pc
           /\ result'.outcome = "raised"
           /\ result'.effects = {}
           /\ hsv' = hsv
           /\ achievements' = achievements ]_vars

\* A reroll has raised on a row with the buffer, the pack and the role
\* flag, whose role is not in the guild; the row has its 1152 buffer.
C23_Witness ==
    /\ result.kind = "buy_color"
    /\ result.outcome = "raised"
    /\ result.effects = {}
    /\ Stored.has_custom_role
    /\ Len(Stored.hue_upgrade) # 0
    /\ Stored.custom_role_id \notin guildRoles
    /\ Stored.buffer = MB(1024 + buy_color_cost)

\* C24: the color a reroll passes to role.edit has, before the division by
\* 100, a saturation from 0 to the saturation cap of the row and a value
\* from 0 to its value cap.
C24_RollWithinCaps ==
    \A t \in Tasks :
        pc[t] = "role_edit" =>
            /\ hsv[t].saturation \in 0..user[t].saturation_upgrade
            /\ hsv[t].value \in 0..user[t].value_upgrade

\* C25: the write of a purchase puts the dictionary the handler built from
\* the row it loaded in the place of the row, whatever was stored since
\* (last write wins); so a message handled and stored between the load and
\* the write of a purchase is lost, and the row is the one neither order of
\* the two on their own leaves.
C25_LastWriteWins ==
    [][\A t \in Tasks :
         Persisting(t) =>
            /\ achievements' = <<stats[t]>>
            /\ stats[t].message_count = user[t].message_count
            /\ stats[t].user_class = user[t].user_class]_vars

\* The owner of a role bought the yellow pack; one message of 10 words in
\* an enabled channel was handled and stored while the success embed was
\* sent.  Both have completed.  The message first, or the purchase first,
\* leaves 2506 messages, 62 buffer and Member; the row has the 2505 messages
\* and the class the purchase loaded and the 2100 - 2048 buffer it computed.
C25_Witness ==
    /\ result.kind = "upgrade_hue"
    /\ result.outcome = "purchased"
    /\ messages = 1
    /\ message = [bot |-> FALSE, channel_enabled |-> TRUE, length |-> 10,
                  is_booster |-> FALSE]
    /\ Stored.hue_upgrade = <<"red", "yellow">>
    /\ Stored.message_count = 2505
    /\ Stored.buffer = MB(2100 - 2048)
    /\ Stored.user_class = "Power User"
    /\ calculate_buffer([Stored EXCEPT !.message_count = 2506,
                                       !.buffer = MB(2100 - 2048)],
                        10, FALSE)
         = [Stored EXCEPT !.message_count = 2506, !.buffer = MB(62),
                          !.user_class = "Member"]

\* C26: in buy role and in reroll color a platform call (create_role,
\* add_roles, edit_role_positions, role.edit) returns only to a handler
\* whose checks have passed on the stats it loaded, and in a step that
\* leaves the table alone; the handler writes its row only after all the
\* platform calls of its command have returned.
C26_PlatformCallsBetweenChecksAndWrite ==
    [][\A t \in Tasks :
         /\ effects'[t] # effects[t] /\ pc'[t] # "idle" =>
               /\ cmd[t].kind \in {"buy_role", "buy_color"}
               /\ cmd[t].kind = "buy_role" =>
                     ~buy_role_rejects(cmd[t].cog, user[t])
               /\ cmd[t].kind = "buy_color" => ~buy_color_rejects(user[t])
               /\ achievements' = achievements
         /\ Persisting(t) /\ cmd[t].kind = "buy_role" =>
               effects[t] = {"create_role", "add_roles", "edit_role_positions"}
         /\ Persisting(t) /\ cmd[t].kind = "buy_color" =>
               effects[t] = {"role_edit"}
         /\ Persisting(t) /\ cmd[t].kind \notin {"buy_role", "buy_color"} =>
               effects[t] = {}]_vars

\* The three platform calls of a buy role have returned and its success
\* embed is being sent: the row is still the one the command loaded.
C26_Witness ==
    \E t \in Tasks :
        /\ pc[t] = "send"
        /\ cmd[t].kind = "buy_role"
        /\ effects[t] = {"create_role", "add_roles", "edit_role_positions"}
        /\ achievements = <<user[t]>>
        /\ ~Stored.has_custom_role
        /\ stats[t].has_custom_role

\* C27: the class a stored message leaves depends on the buffer and the
\* message_count it leaves alone: a row with the same buffer and
\* message_count, whatever its class, gets the same class from the same
\* message.
C27_RankIsSnapshot ==
    [][Accruing =>
         \A other \in MessageRows :
            ( /\ other.buffer = loaded_stats(achievements).buffer
              /\ other.message_count = loaded_stats(achievements).message_count )
            => calculate_buffer([other EXCEPT !.message_count = @ + 1],
                                message'.length, message'.is_booster).user_class
                 = achievements'[1].user_class]_vars

\* C28: a stored message that leaves the buffer under the buffer floor of
\* the class the row had (purchases having taken the buffer there) leaves a
\* class of a strictly lower tier; and no message event lowers the buffer.
C28_DemotedByNextMessage ==
    [][ /\ ( /\ Accruing
             /\ achievements'[1].buffer <
                  MB(BufferFloor[Tier(loaded_stats(achievements).user_class)]) )
           => Tier(achievements'[1].user_class) <
                Tier(loaded_stats(achievements).user_class)
        /\ messages' = messages + 1 /\ achievements' # <<>> =>
              achievements'[1].buffer >= loaded_stats(achievements).buffer ]_vars

\* A Power User bought a role for 10240 of 25600 buffer and then wrote a
\* message of 10 words: 15370 buffer, under the 25600 of Power User, and the
\* class is User.
C28_Witness ==
    /\ result.kind = "buy_role"
    /\ result.outcome = "purchased"
    /\ messages = 1
    /\ Stored.has_custom_role
    /\ Stored.message_count = 2501
    /\ Stored.buffer = MB(25600 - 10240 + 10)
    /\ Stored.user_class = "User"

\* C29: the row a purchase writes has the user_class, the message_count,
\* the freeleech_token and the achievements the purchase loaded; the row of
\* a reroll differs from the loaded stats in buffer alone, the row of an
\* upgrade_hue in buffer and hue_upgrade alone; and a purchase that ends
\* without its success embed writes no row but the default row of a member
\* who had none.
C29_PurchaseKeepsTheOtherFields ==
    [][ /\ \A t \in Tasks :
             Persisting(t) =>
                /\ achievements'[1].user_class = user[t].user_class
                /\ achievements'[1].message_count = user[t].message_count
                /\ achievements'[1].freeleech_token = user[t].freeleech_token
                /\ achievements'[1].achievements = user[t].achievements
                /\ cmd[t].kind = "buy_color" =>
                      achievements'[1] =
                        [user[t] EXCEPT !.buffer = @ - MB(SpecCost(cmd[t], user[t]))]
                /\ cmd[t].kind = "upgrade_hue" =>
                      achievements'[1] =
                        [user[t] EXCEPT
                            !.buffer = @ - MB(SpecCost(cmd[t], user[t])),
                            !.hue_upgrade = Append(@, cmd[t].pack)]
        /\ ( \/ Invoking /\ pc' = pc
             \/ \E t \in Tasks :
                  pc[t] # "idle" /\ pc'[t] = "idle" /\ ~Persisting(t) )
           => \/ achievements' = achievements
              \/ achievements' = load_or_create(achievements) ]_vars

\* A reroll has been written: 128 buffer less than ownerRow, which it
\* loaded, and every other field that of ownerRow.
C29_Witness ==
    /\ result.kind = "buy_color"
    /\ result.outcome = "purchased"
    /\ achievements = <<[ownerRow EXCEPT !.buffer = @ - MB(128)]>>

\* C30: whatever amounts upgrade_saturation and upgrade_value were invoked
\* with, the saturation_upgrade and the value_upgrade of the stored row are
\* not negative.
C30_CapsNeverNegative ==
    find_one(achievements) =>
        /\ Stored.saturation_upgrade >= 0
        /\ Stored.value_upgrade >= 0

\* The position edit_role_positions is given for the role at `index` of
\* ctx.guild.roles, index 1 being the new role.
PositionOf(index) ==
    IF index = 1 THEN positions.custom_role ELSE positions.roles[index]

\* The positions of a guild of n >= 16 roles are 0..n-2, each given once to
\* the new role or to a role at 2..n-1, in the order of the indices of these,
\* the new role at n - 16 and the role at the index n - 14 next above it.
PlacedUnderModRoles ==
    LET n == positions.role_count
    IN  /\ DOMAIN positions.roles = 2..(n - 1)
        /\ {PositionOf(index) : index \in 1..(n - 1)} = 0..(n - 2)
        /\ \A i, j \in 2..(n - 1) : i < j => PositionOf(i) < PositionOf(j)
        /\ positions.custom_role = n - 16
        /\ PositionOf(n - 14) = positions.custom_role + 1

\* C31 (as claimed): in a guild of n >= 16 roles the placement is as above
\* and the new role is next above the role that was at the index n - 15.
C31_NextAboveIndexNMinus15 ==
    positions.role_count >= 16 =>
        /\ PlacedUnderModRoles
        /\ positions.custom_role = PositionOf(positions.role_count - 15) + 1

\* C31 (amended): in a guild of n >= 16 roles the placement is as above; with
\* n >= 17 the new role is next above the role that was at the index n - 15,
\* and with n = 16, where that index is the new role's own, it is at 0 with
\* no role under it.
C31_PlacedUnderModRoles ==
    positions.role_count >= 16 =>
        /\ PlacedUnderModRoles
        /\ positions.role_count >= 17 =>
              positions.custom_role = PositionOf(positions.role_count - 15) + 1
        /\ positions.role_count = 16 =>
              /\ positions.custom_role = 0
              /\ \A index \in 2..15 : PositionOf(index) > 0

\* A buy role has placed its role in a guild of 18 roles: at 2, over the
\* roles that were at the indices 2 and 3 and under the one that was at 4.
C31_Witness ==
    /\ positions.role_count = 18
    /\ result.kind = "buy_role"
    /\ result.outcome = "purchased"
    /\ positions.custom_role = 2
    /\ positions.roles[2] = 0
    /\ positions.roles[3] = 1
    /\ positions.roles[4] = 3

\* C32: whatever the number of roles of the guild, 2 or more, every position
\* passed to edit_role_positions is 0 or more and no two roles are given
\* the same position.
C32_PositionsNonNegativeAndDistinct ==
    positions.role_count >= 2 =>
        /\ positions.custom_role >= 0
        /\ \A index \in DOMAIN positions.roles : positions.roles[index] >= 0
        /\ \A i, j \in {1} \cup DOMAIN positions.roles :
              i # j => PositionOf(i) # PositionOf(j)

\* C33: whatever buy role commands the user invokes, one after another,
\* at once, or again after a platform call has failed, create_role has made
\* at most one role for the user (every role made here is the user's).
C33_AtMostOneRoleCreated == created <= 1

\* C34: the stored row has has_custom_role exactly when its custom_role_id
\* is the id of a role that create_role made for the user, and
\* custom_role_id 0, the default, exactly when it has not: no row is written
\* with one of the two fields and without the other.
C34_RoleFlagAndIdTogether ==
    find_one(achievements) =>
        /\ Stored.has_custom_role <=> Stored.custom_role_id \in 1..created
        /\ ~Stored.has_custom_role <=> Stored.custom_role_id = 0

\* A buy role has been written by a member who had no role: the flag and
\* the id of the role made for it.
C34_Witness ==
    /\ result.kind = "buy_role"
    /\ result.outcome = "purchased"
    /\ created = 1
    /\ Stored.has_custom_role
    /\ Stored.custom_role_id = 1

\* 3, the record of a user at its defaults.
DefaultRecord ==
    [ user_class         |-> "Member",
      message_count      |-> 0,
      buffer             |-> 0,
      freeleech_token    |-> 0,
      has_custom_role    |-> FALSE,
      custom_role_id     |-> 0,
      hue_upgrade        |-> <<>>,
      saturation_upgrade |-> 0,
      value_upgrade      |-> 0,
      achievements       |-> <<>> ]

\* The step is a message of a sender that is no bot.
Messaging == messages' = messages + 1 /\ ~message'.bot

\* The invoked command was answered with "You can only run this command in
\* #bots channel".
OutsideBots == Invoking /\ pc' = pc /\ result'.outcome = "wrong_channel"

\* The row the first message or command of a user leaves: the default row,
\* with the effect of the message when its channel is enabled (no purchase
\* is accepted on the default row).
FirstRowIsDefault ==
    \/ achievements' = <<DefaultRecord>>
    \/ /\ Messaging
       /\ message'.channel_enabled
       /\ achievements' =
            <<calculate_buffer([DefaultRecord EXCEPT !.message_count = 1],
                               message'.length, message'.is_booster)>>

\* C35 (as claimed): the first message of a user without a row, or the first
\* command the user invokes, leaves the default row, with the effect of the
\* message or command applied to it; and a row is never removed.
C35_FirstOperationCreatesTheRow ==
    [][ /\ (~find_one(achievements) /\ (Messaging \/ Invoking))
           => FirstRowIsDefault
        /\ find_one(achievements) => find_one(achievements') ]_vars

\* C35 (amended): the same for every message of a sender that is no bot and
\* every command but a buy role or a reroll invoked outside #bots, which is
\* answered before the table is opened and leaves the user without a row.
C35_FirstOperationInReachCreatesTheRow ==
    [][ /\ (~find_one(achievements) /\ (Messaging \/ Invoking) /\ ~OutsideBots)
           => FirstRowIsDefault
        /\ (~find_one(achievements) /\ OutsideBots) => ~find_one(achievements')
        /\ find_one(achievements) => find_one(achievements') ]_vars

\* The first command of a user without a row, an upgrade_hue, has failed
\* and the default row is stored.
C35_Witness ==
    /\ achievements = <<DefaultRecord>>
    /\ commands = 1
    /\ messages = 0
    /\ result.kind = "upgrade_hue"
    /\ result.outcome = "failed"

\* C36: a message event of a bot leaves the table as it was: no row is made
\* for a user without one, and the message_count, the buffer and the
\* user_class of a row are not changed.
C36_BotMessageChangesNothing ==
    [][(messages' = messages + 1 /\ message'.bot)
         => achievements' = achievements]_vars

\* A bot has written 10 words in an enabled channel, a booster at that, and
\* has no row.
C36_Witness ==
    /\ messages = 1
    /\ message = [bot |-> TRUE, channel_enabled |-> TRUE, length |-> 10,
                  is_booster |-> TRUE]
    /\ achievements = <<>>

====
